---- MODULE Spec2Model ----
(***************************************************************************)
(* Typed query-client demo: hierarchical query keys, the key -> cache      *)
(* model registry, the mock origin, and the cache store / query executor / *)
(* mutation coordinator the application drives through the query client.   *)
(*                                                                         *)
(* Representation.  A JavaScript string on which the code computes (a      *)
(* content type name) is a sequence of one-character strings; identifiers  *)
(* that are only compared stay TLA+ strings.  An ISO timestamp is an       *)
(* integer; the four mock timestamps are their day of January 2025.  A     *)
(* JavaScript object is a record, an array a sequence; a cached array is   *)
(* wrapped as [items |-> seq] so that every cached value is a record.      *)
(***************************************************************************)
EXTENDS Integers, Sequences, FiniteSets, TLC

VARIABLES
  cache,      \* the cache store: query key -> entry
  inflight,   \* query key -> number of transport calls outstanding for it
  waiters,    \* query key -> requesters attached to the fetch in flight
  delivered,  \* requester -> what the fetch settled by the last step resolved to for it
  mut,        \* the detail view's mutation (useMutation state)
  selected,   \* App's selectedContentTypeId
  probe       \* inputs and result of the last key-algebra / registry call

vars == <<cache, inflight, waiters, delivered, mut, selected, probe>>

-----------------------------------------------------------------------------
(* Bounds *)

MaxEntries == 3      \* live cache entries
MaxRequesters == 2   \* concurrent requesters (observers) of queries
MaxSuffixes == 1     \* name suffixes appended by updates
MaxNow == 1          \* distinct readings of the clock
MaxInflight == 1     \* fetches in flight at once, over all keys

-----------------------------------------------------------------------------
(* Strings *)

S_Article == <<"A", "r", "t", "i", "c", "l", "e">>
S_Author == <<"A", "u", "t", "h", "o", "r">>
S_Product == <<"P", "r", "o", "d", "u", "c", "t">>
S_Category == <<"C", "a", "t", "e", "g", "o", "r", "y">>
S_Updated == <<" ", "(", "U", "p", "d", "a", "t", "e", "d", ")">>
S_ManuallyUpdated ==
  <<" ", "[", "M", "a", "n", "u", "a", "l", "l", "y", " ",
    "U", "p", "d", "a", "t", "e", "d", "]">>

LowerChar(c) ==
  CASE c = "A" -> "a" [] c = "C" -> "c" [] c = "M" -> "m"
    [] c = "P" -> "p" [] c = "U" -> "u" [] OTHER -> c

toLowerCase(s) == [i \in 1..Len(s) |-> LowerChar(s[i])]

includes(s, needle) ==
  \E i \in 0..(Len(s) - Len(needle)) : SubSeq(s, i + 1, i + Len(needle)) = needle

\* Number of update suffixes a name carries (each opens one bracket).
Suffixes(s) == Cardinality({i \in 1..Len(s) : s[i] \in {"(", "["}})

\* new Date().toISOString(): any reading of the clock, later than the mock's.
NowValues == {15 + t : t \in 1..MaxNow}

-----------------------------------------------------------------------------
(* Cache models *)

ModelOf(v) ==
  CASE DOMAIN v = {"id", "name", "codename", "lastModified"} -> "ContentType"
    [] DOMAIN v = {"data", "pagination"} -> "ContentTypes"
    [] DOMAIN v = {"items"} -> "Languages"
    [] OTHER -> "none"

NoValue == [undefined |-> TRUE]

-----------------------------------------------------------------------------
(* Mock origin *)

allContentTypes ==
  << [id |-> "ct-001", name |-> S_Article, codename |-> "article", lastModified |-> 15],
     [id |-> "ct-002", name |-> S_Author, codename |-> "author", lastModified |-> 14],
     [id |-> "ct-003", name |-> S_Product, codename |-> "product", lastModified |-> 13],
     [id |-> "ct-004", name |-> S_Category, codename |-> "category", lastModified |-> 12] >>

mockContentTypesByCodename ==
  [ article |-> [id |-> "ct-001", name |-> S_Article, codename |-> "article", lastModified |-> 15],
    author |-> [id |-> "ct-002", name |-> S_Author, codename |-> "author", lastModified |-> 14],
    product |-> [id |-> "ct-003", name |-> S_Product, codename |-> "product", lastModified |-> 13] ]

mockLanguages ==
  << [id |-> "lang-001", name |-> "English (United States)", codename |-> "en-us"],
     [id |-> "lang-002", name |-> "German (Germany)", codename |-> "de-de"],
     [id |-> "lang-003", name |-> "Spanish (Spain)", codename |-> "es-es"],
     [id |-> "lang-004", name |-> "French (France)", codename |-> "fr-fr"] >>

Resolved(v) == [ok |-> TRUE, value |-> v]
Rejected == [ok |-> FALSE, value |-> NoValue]
\* A promise that never settles.
Pending == [ok |-> FALSE, value |-> NoValue, pending |-> TRUE]

fetchContentTypes(projectId, filter) ==
  LET Keep(ct) == includes(toLowerCase(ct.name), toLowerCase(filter.name))
      \* allContentTypes.filter(Keep), over the first i items
      Kept[i \in 0..Len(allContentTypes)] ==
        IF i = 0 THEN << >>
        ELSE IF Keep(allContentTypes[i])
             THEN Append(Kept[i - 1], allContentTypes[i])
             ELSE Kept[i - 1]
      filteredTypes == IF "name" \in DOMAIN filter /\ filter.name # << >>
                       THEN Kept[Len(allContentTypes)]
                       ELSE allContentTypes
  IN Resolved([data |-> filteredTypes,
               pagination |-> [count |-> Len(filteredTypes), nextPage |-> "null"]])

\* Variant: the origin also resolves a content type by its id.
fetchContentType_ByIdOrCodename(projectId, contentTypeId) ==
  IF contentTypeId \in DOMAIN mockContentTypesByCodename
  THEN Resolved(mockContentTypesByCodename[contentTypeId])
  ELSE IF \E i \in 1..Len(allContentTypes) : allContentTypes[i].id = contentTypeId
       THEN Resolved(allContentTypes[CHOOSE i \in 1..Len(allContentTypes) :
                                       allContentTypes[i].id = contentTypeId])
       ELSE Rejected

\* Variant: an unknown codename yields a promise that never settles.
fetchContentType_NoReject(projectId, contentTypeId) ==
  IF contentTypeId \in DOMAIN mockContentTypesByCodename
  THEN Resolved(mockContentTypesByCodename[contentTypeId])
  ELSE Pending

fetchContentType(projectId, contentTypeId) ==
  IF contentTypeId \in DOMAIN mockContentTypesByCodename
  THEN Resolved(mockContentTypesByCodename[contentTypeId])
  ELSE Rejected

fetchLanguages(projectId) == Resolved([items |-> mockLanguages])

mock_updateContentType(contentType, now) ==
  Resolved([contentType EXCEPT !.lastModified = now])

-----------------------------------------------------------------------------
(* Key algebra: contentTypeKeys and languageKeys *)

\* { ...obj, field: val }
Spread(obj, field, val) ==
  [f \in DOMAIN obj \cup {field} |-> IF f = field THEN val ELSE obj[f]]

EmptyObject == [f \in {} |-> ""]

contentTypeKeys_all == << [type |-> "contentType"] >>

contentTypeKeys_allForEnvironment(projectId) ==
  << Spread(contentTypeKeys_all[1], "projectId", projectId) >>

\* Variant: the details scope is tagged as the lists scope.
contentTypeKeys_detailsForEnvironment_ListScope(projectId) ==
  << Spread(contentTypeKeys_allForEnvironment(projectId)[1], "scope", "list") >>

contentTypeKeys_detailsForEnvironment(projectId) ==
  << Spread(contentTypeKeys_allForEnvironment(projectId)[1], "scope", "detail") >>

contentTypeKeys_listsForEnvironment(projectId) ==
  << Spread(contentTypeKeys_allForEnvironment(projectId)[1], "scope", "list") >>

\* Variant: the detail key adds no field to the details scope.
contentTypeKeys_detail_NoLeafField(projectId, detailId) ==
  << contentTypeKeys_detailsForEnvironment(projectId)[1] >>

contentTypeKeys_detail(projectId, detailId) ==
  << Spread(contentTypeKeys_detailsForEnvironment(projectId)[1], "detailId", detailId) >>

contentTypeKeys_list(projectId, filter) ==
  << Spread(contentTypeKeys_listsForEnvironment(projectId)[1], "filter",
            IF filter = NoValue THEN EmptyObject ELSE filter) >>

languageKeys_all == << [type |-> "language"] >>

languageKeys_allForEnvironment(projectId) ==
  << Spread(languageKeys_all[1], "projectId", projectId) >>

languageKeys_listsForEnvironment(projectId) ==
  << Spread(languageKeys_allForEnvironment(projectId)[1], "scope", "list") >>

languageKeys_list(projectId) ==
  << languageKeys_listsForEnvironment(projectId)[1] >>

\* The cache model registered for each query key name of each entity.
QueryKeyNameToCacheModel ==
  [ contentType |-> [detail |-> "ContentType", list |-> "ContentTypes"],
    language |-> [list |-> "Languages"] ]

\* Variant: detail is declared beneath the lists scope.
SpreadsFrom_DetailUnderLists ==
  [ contentType |->
      [ allForEnvironment |-> "all",
        detailsForEnvironment |-> "allForEnvironment",
        listsForEnvironment |-> "allForEnvironment",
        detail |-> "listsForEnvironment",
        list |-> "listsForEnvironment" ],
    language |->
      [ allForEnvironment |-> "all",
        listsForEnvironment |-> "allForEnvironment",
        list |-> "listsForEnvironment" ] ]

\* The filter key each key creator spreads ("all" spreads none).
SpreadsFrom ==
  [ contentType |->
      [ allForEnvironment |-> "all",
        detailsForEnvironment |-> "allForEnvironment",
        listsForEnvironment |-> "allForEnvironment",
        detail |-> "detailsForEnvironment",
        list |-> "listsForEnvironment" ],
    language |->
      [ allForEnvironment |-> "all",
        listsForEnvironment |-> "allForEnvironment",
        list |-> "listsForEnvironment" ] ]

\* Arguments the model calls the key creators with.
PROJECT_ID == "project-001"
Projects == {PROJECT_ID, "project-002"}
DetailIds == {"article", "category", "ct-001"}
Filters == {NoValue, [name |-> <<"A", "u">>]}
NoArg == "-"

FilterKeyDecls ==
  {[entity |-> e, name |-> "all", projectId |-> NoArg] : e \in {"contentType", "language"}}
  \cup [entity : {"contentType"},
        name : {"allForEnvironment", "detailsForEnvironment", "listsForEnvironment"},
        projectId : Projects]
  \cup [entity : {"language"},
        name : {"allForEnvironment", "listsForEnvironment"},
        projectId : Projects]

QueryKeyDecls ==
  [entity : {"contentType"}, name : {"detail"}, projectId : Projects, arg : DetailIds]
  \cup [entity : {"contentType"}, name : {"list"}, projectId : Projects, arg : Filters]
  \cup [entity : {"language"}, name : {"list"}, projectId : Projects, arg : {NoArg}]

FilterKeyOf(d) ==
  IF d.entity = "contentType"
  THEN CASE d.name = "all" -> contentTypeKeys_all
         [] d.name = "allForEnvironment" -> contentTypeKeys_allForEnvironment(d.projectId)
         [] d.name = "detailsForEnvironment" -> contentTypeKeys_detailsForEnvironment(d.projectId)
         [] d.name = "listsForEnvironment" -> contentTypeKeys_listsForEnvironment(d.projectId)
  ELSE CASE d.name = "all" -> languageKeys_all
         [] d.name = "allForEnvironment" -> languageKeys_allForEnvironment(d.projectId)
         [] d.name = "listsForEnvironment" -> languageKeys_listsForEnvironment(d.projectId)

QueryKeyOf(d) ==
  IF d.entity = "contentType"
  THEN CASE d.name = "detail" -> contentTypeKeys_detail(d.projectId, d.arg)
         [] d.name = "list" -> contentTypeKeys_list(d.projectId, d.arg)
  ELSE languageKeys_list(d.projectId)

\* The keys the creators build, by declaration.
BuiltFilterKey == [d \in FilterKeyDecls |-> FilterKeyOf(d)]
BuiltQueryKey == [d \in QueryKeyDecls |-> QueryKeyOf(d)]

FilterKeys == {BuiltFilterKey[d] : d \in FilterKeyDecls}
QueryKeys == {BuiltQueryKey[d] : d \in QueryKeyDecls}

\* The query keys the model's requesters ask for.
RequestKeys ==
  { contentTypeKeys_detail(PROJECT_ID, "article"),
    contentTypeKeys_detail(PROJECT_ID, "category"),
    contentTypeKeys_detail(PROJECT_ID, "ct-001"),
    contentTypeKeys_list(PROJECT_ID, NoValue),
    contentTypeKeys_list(PROJECT_ID, [name |-> <<"A", "u">>]),
    languageKeys_list(PROJECT_ID),
    contentTypeKeys_detail("project-002", "article"),
    contentTypeKeys_list("project-002", NoValue) }

\* The filter key names above a key name in its entity's extension chain.
RECURSIVE LineageNames(_, _)
LineageNames(entity, name) ==
  IF name \in DOMAIN SpreadsFrom[entity]
  THEN {SpreadsFrom[entity][name]} \cup LineageNames(entity, SpreadsFrom[entity][name])
  ELSE {}

\* Query key declaration dq is a registered leaf beneath filter key declaration df.
Beneath(dq, df) ==
  /\ dq.entity = df.entity
  /\ df.name \in LineageNames(dq.entity, dq.name)
  /\ df.name = "all" \/ df.projectId = dq.projectId

\* Every field of object f appears with an equal value in object q.
FieldsContained(f, q) ==
  \A name \in DOMAIN f : name \in DOMAIN q /\ q[name] = f[name]

\* Containment relation: filter key F matches query key Q.
matches(F, Q) ==
  /\ Len(F) = Len(Q)
  /\ \A i \in 1..Len(F) : FieldsContained(F[i], Q[i])
  /\ \E df \in FilterKeyDecls :
       /\ BuiltFilterKey[df] = F
       /\ \E dq \in QueryKeyDecls : BuiltQueryKey[dq] = Q /\ Beneath(dq, df)

\* The cache model registered for a query key.
CacheModelForKey(Q) ==
  LET d == CHOOSE dq \in QueryKeyDecls : BuiltQueryKey[dq] = Q
  IN QueryKeyNameToCacheModel[d.entity][d.name]

-----------------------------------------------------------------------------
(* Key-model registry: the types QueryKeyMap derives from the key creators *)

Entities == {"contentType", "language"}

StringType == [kind |-> "string"]
LiteralType(v) == [kind |-> "literal", value |-> v]
FilterType == [kind |-> "Record<string, string>"]

\* typeof of a built key: `as const` keeps the literals the creators write
\* (type, scope); the arguments keep their declared types.
KeyType(key) ==
  [f \in DOMAIN key[1] |->
     CASE f \in {"type", "scope"} -> LiteralType(key[1][f])
       [] f = "filter" -> FilterType
       [] OTHER -> StringType]

\* S extends T, for the types of key fields.
FieldExtends(S, T) == S = T \/ (S.kind = "literal" /\ T = StringType)

\* TQueryKey extends TKeyShape, for key shapes.
KeyExtends(Q, K) ==
  \A f \in DOMAIN K : f \in DOMAIN Q /\ FieldExtends(Q[f], K[f])

FilterKeyNames(entity) == {d.name : d \in {x \in FilterKeyDecls : x.entity = entity}}
QueryKeyNames(entity) == {d.name : d \in {x \in QueryKeyDecls : x.entity = entity}}

\* Key name -> key shape, over the filter keys and the query keys of an entity.
AllKeyNamesToKeyShape(entity) ==
  [n \in FilterKeyNames(entity) \cup QueryKeyNames(entity) |->
     IF n \in FilterKeyNames(entity)
     THEN KeyType(FilterKeyOf(CHOOSE d \in FilterKeyDecls : d.entity = entity /\ d.name = n))
     ELSE KeyType(QueryKeyOf(CHOOSE d \in QueryKeyDecls : d.entity = entity /\ d.name = n))]

\* Variant: every query key shape of the entity, whatever the key shape.
GetQueryKeysForKey_AllQueryKeys(TKeyShape, TQueryKeyShapesUnion) == TQueryKeyShapesUnion

\* The query key shapes that extend the key shape.
GetQueryKeysForKey(TKeyShape, TQueryKeyShapesUnion) ==
  {TQueryKey \in TQueryKeyShapesUnion : KeyExtends(TQueryKey, TKeyShape)}

KeyNamesToQueryKeys(entity) ==
  LET shapes == AllKeyNamesToKeyShape(entity)
      TQueryKeyShapesUnion == {shapes[n] : n \in QueryKeyNames(entity)}
  IN [n \in DOMAIN shapes |-> GetQueryKeysForKey(shapes[n], TQueryKeyShapesUnion)]

\* The tuples [query key shape, cache model] of an entity.
QueryKeyToCacheModelForAllQueryKeys(entity) ==
  {[queryKey |-> AllKeyNamesToKeyShape(entity)[n],
    cacheModel |-> QueryKeyNameToCacheModel[entity][n]] :
     n \in DOMAIN QueryKeyNameToCacheModel[entity]}

\* The tuples whose query key shape is one of the union TQueryKey.
QueryKeyToCacheModelForSpecificQueryKey(TQueryKey, TTupleUnion) ==
  {t \in TTupleUnion : \E q \in TQueryKey : KeyExtends(t.queryKey, q)}

QueryKeyMap(entity) ==
  LET shapes == AllKeyNamesToKeyShape(entity)
      queryKeys == KeyNamesToQueryKeys(entity)
  IN [n \in DOMAIN queryKeys |->
        [filterKey |-> shapes[n],
         queryKey |-> queryKeys[n],
         queryKeyToCacheModel |->
           QueryKeyToCacheModelForSpecificQueryKey(
             queryKeys[n], QueryKeyToCacheModelForAllQueryKeys(entity))]]

\* AllEntityKeyMap = ContentTypeKeyMap | LanguageKeyMap, as the set of its entries.
AllEntityKeyMap ==
  UNION {{QueryKeyMap(e)[n] : n \in DOMAIN QueryKeyMap(e)} : e \in Entities}

\* The tuples of every entry whose filterKey extends TAnyKey.
QueryKeyToCacheModelTuplesForKey(TAnyKey) ==
  UNION {entry.queryKeyToCacheModel :
           entry \in {x \in AllEntityKeyMap : KeyExtends(x.filterKey, TAnyKey)}}

-----------------------------------------------------------------------------
(* Cache store *)

NewEntry == [state |-> "idle", value |-> NoValue, stale |-> FALSE, error |-> FALSE]

read(c, key) == IF key \in DOMAIN c THEN c[key] ELSE NewEntry

Put(c, key, entry) ==
  [k \in DOMAIN c \cup {key} |-> IF k = key THEN entry ELSE c[k]]

getQueryData(c, queryKey) == read(c, queryKey).value

\* Variant: a write never replaces a value already cached.
setQueryData_KeepsExisting(c, queryKey, data) ==
  IF data = NoValue \/ read(c, queryKey).value # NoValue
  THEN c
  ELSE Put(c, queryKey,
           [state |-> "success", value |-> data, stale |-> FALSE, error |-> FALSE])

\* data is what the caller's updater returns for getQueryData(c, queryKey).
setQueryData(c, queryKey, data) ==
  IF data = NoValue
  THEN c
  ELSE Put(c, queryKey,
           [state |-> "success", value |-> data, stale |-> FALSE, error |-> FALSE])

markLoading(c, key) == Put(c, key, [read(c, key) EXCEPT !.state = "loading"])

\* Variant: a failed fetch drops the cached value.
markError_ClearsValue(c, key) ==
  Put(c, key, [read(c, key) EXCEPT !.state = "error", !.error = TRUE, !.value = NoValue])

markError(c, key) ==
  Put(c, key, [read(c, key) EXCEPT !.state = "error", !.error = TRUE])

\* The query keys each filter key matches.
Matched == [F \in FilterKeys |-> {Q \in QueryKeys : matches(F, Q)}]

\* Variant: marks every entry stale, whatever the filter key.
invalidateQueries_IgnoresFilter(c, filterKey) ==
  [k \in DOMAIN c |-> [c[k] EXCEPT !.stale = TRUE]]

invalidateQueries(c, filterKey) ==
  [k \in DOMAIN c |->
     IF k \in Matched[filterKey] THEN [c[k] EXCEPT !.stale = TRUE] ELSE c[k]]

\* Room for an entry under key: the bound on live entries.
HasRoom(c, key) == key \in DOMAIN c \/ Cardinality(DOMAIN c) < MaxEntries

-----------------------------------------------------------------------------
(* Query options and the mutation *)

getContentType_queryFn(queryKey) ==
  fetchContentType(queryKey[1].projectId, queryKey[1].detailId)

getContentTypes_queryFn(queryKey) ==
  fetchContentTypes(queryKey[1].projectId, queryKey[1].filter)

languagesQuery_queryFn(queryKey) == fetchLanguages(queryKey[1].projectId)

\* The queryFn of the query options that build queryKey.
queryFn(queryKey) ==
  IF queryKey[1].type = "language" THEN languagesQuery_queryFn(queryKey)
  ELSE IF queryKey[1].scope = "detail" THEN getContentType_queryFn(queryKey)
  ELSE getContentTypes_queryFn(queryKey)

updateContentType_mutationFn(variables, now) ==
  mock_updateContentType(variables.contentType, now)

\* Variant: invalidates every contentType query of the project, not only lists.
updateContentType_onSuccess_InvalidatesAll(c, data, variables) ==
  LET written == setQueryData(c,
                   contentTypeKeys_detail(variables.projectId, data.id),
                   data)
  IN << written,
        invalidateQueries(written,
          contentTypeKeys_allForEnvironment(variables.projectId)) >>

\* Variant: writes the committed record under the list key.
updateContentType_onSuccess_WritesList(c, data, variables) ==
  LET written == setQueryData(c,
                   contentTypeKeys_list(variables.projectId, NoValue),
                   data)
  IN << written,
        invalidateQueries(written,
          contentTypeKeys_listsForEnvironment(variables.projectId)) >>

\* Variant: invalidates the lists before writing the detail.
updateContentType_onSuccess_InvalidateFirst(c, data, variables) ==
  LET invalidated == invalidateQueries(c,
                       contentTypeKeys_listsForEnvironment(variables.projectId))
  IN << invalidated,
        setQueryData(invalidated,
          contentTypeKeys_detail(variables.projectId, data.id),
          data) >>

\* Variant: writes the committed record over every cached detail of the project.
updateContentType_onSuccess_WritesAllDetails(c, data, variables) ==
  LET target == contentTypeKeys_detail(variables.projectId, data.id)
      written == [k \in DOMAIN c \cup {target} |->
                    IF k \in Matched[contentTypeKeys_detailsForEnvironment(variables.projectId)]
                    THEN [state |-> "success", value |-> data, stale |-> FALSE, error |-> FALSE]
                    ELSE c[k]]
  IN << written,
        invalidateQueries(written,
          contentTypeKeys_listsForEnvironment(variables.projectId)) >>

\* Variant: removes the project's list entries instead of invalidating them.
updateContentType_onSuccess_RemovesLists(c, data, variables) ==
  LET written == setQueryData(c,
                   contentTypeKeys_detail(variables.projectId, data.id),
                   data)
      kept == DOMAIN written \
                Matched[contentTypeKeys_listsForEnvironment(variables.projectId)]
  IN << written, [k \in kept |-> written[k]] >>

\* onSuccess: the store after each of its cache effects, in order.
updateContentType_onSuccess(c, data, variables) ==
  LET written == setQueryData(c,
                   contentTypeKeys_detail(variables.projectId, data.id),
                   data)
  IN << written,
        invalidateQueries(written,
          contentTypeKeys_listsForEnvironment(variables.projectId)) >>

\* Variant: a failed origin write still invalidates the project's lists.
updateContentType_onError_InvalidatesLists(c, variables) ==
  invalidateQueries(c, contentTypeKeys_listsForEnvironment(variables.projectId))

\* mutationOptions declares onSuccess only (no onError, no onSettled): a failed
\* origin write runs no handler of updateContentType, so no cache effect.
updateContentType_onError(c, variables) == c

\* Variant: the updater without its guard for an absent value.
handleManualCacheUpdate_updater_NoGuard(old, now) ==
  IF old = NoValue
  THEN [name |-> <<"u", "n", "d", "e", "f", "i", "n", "e", "d">> \o S_ManuallyUpdated,
        lastModified |-> now]
  ELSE [old EXCEPT !.name = old.name \o S_ManuallyUpdated, !.lastModified = now]

\* The updater of handleManualCacheUpdate.
handleManualCacheUpdate_updater(old, now) ==
  IF old = NoValue
  THEN old
  ELSE [old EXCEPT !.name = old.name \o S_ManuallyUpdated, !.lastModified = now]

-----------------------------------------------------------------------------
(* State machine *)

Requesters == 1..MaxRequesters
NoDelivery == [none |-> TRUE]
NoProbe == [none |-> TRUE]
IdleMutation ==
  [status |-> "idle", variables |-> NoValue, data |-> NoValue, viewKey |-> << >>]

Undelivered == [r \in Requesters |-> NoDelivery]

Init ==
  /\ cache = [k \in {} |-> NewEntry]
  /\ inflight = [k \in QueryKeys |-> 0]
  /\ waiters = [k \in QueryKeys |-> {}]
  /\ delivered = Undelivered
  /\ mut = IdleMutation
  /\ selected = "article"
  /\ probe = NoProbe

Attached(r) == \E k \in QueryKeys : r \in waiters[k]

\* Variant: a fetch starts without marking the entry loading.
StartFetch_NoLoading(r, queryKey) ==
  /\ inflight[queryKey] = 0
  /\ Cardinality({k \in QueryKeys : inflight[k] > 0}) < MaxInflight
  /\ cache' = cache
  /\ inflight' = [inflight EXCEPT ![queryKey] = 1]
  /\ waiters' = [waiters EXCEPT ![queryKey] = {r}]

\* A requester asks for queryKey with no fetch of it in flight: one transport call.
StartFetch(r, queryKey) ==
  /\ inflight[queryKey] = 0
  /\ Cardinality({k \in QueryKeys : inflight[k] > 0}) < MaxInflight
  /\ cache' = markLoading(cache, queryKey)
  /\ inflight' = [inflight EXCEPT ![queryKey] = 1]
  /\ waiters' = [waiters EXCEPT ![queryKey] = {r}]

\* Variant: a second requester issues its own transport call.
JoinFetch_Duplicates(r, queryKey) ==
  /\ inflight[queryKey] > 0
  /\ inflight' = [inflight EXCEPT ![queryKey] = @ + 1]
  /\ waiters' = [waiters EXCEPT ![queryKey] = @ \cup {r}]
  /\ UNCHANGED cache

\* A requester asks for queryKey while a fetch of it is in flight: it attaches.
JoinFetch(r, queryKey) ==
  /\ inflight[queryKey] > 0
  /\ waiters' = [waiters EXCEPT ![queryKey] = @ \cup {r}]
  /\ UNCHANGED <<cache, inflight>>

\* useQuery(getContentType(..)) / useQuery(getContentTypes(..)) /
\* useQuery(languagesQuery(..)): mount or explicit refetch by requester r.
Request(r, queryKey) ==
  /\ ~Attached(r)
  /\ HasRoom(cache, queryKey)
  /\ StartFetch(r, queryKey) \/ JoinFetch(r, queryKey)
  /\ delivered' = Undelivered
  /\ UNCHANGED <<mut, selected, probe>>

\* Variant: a rejected fetch is retried at once, without a request.
FetchSettle_Retries(queryKey) ==
  /\ inflight[queryKey] > 0
  /\ queryFn(queryKey) # Pending
  /\ LET res == queryFn(queryKey)
     IN /\ cache' = IF res.ok
                    THEN setQueryData(cache, queryKey, res.value)
                    ELSE markError(cache, queryKey)
        /\ delivered' = [r \in Requesters |->
                           IF r \in waiters[queryKey]
                           THEN [key |-> queryKey, ok |-> res.ok, value |-> res.value]
                           ELSE NoDelivery]
        /\ inflight' = IF res.ok THEN [inflight EXCEPT ![queryKey] = @ - 1] ELSE inflight
  /\ waiters' = [waiters EXCEPT ![queryKey] = {}]
  /\ UNCHANGED <<mut, selected, probe>>

\* The transport answers the fetch of queryKey.
FetchSettle(queryKey) ==
  /\ inflight[queryKey] > 0
  /\ queryFn(queryKey) # Pending
  /\ LET res == queryFn(queryKey)
     IN /\ cache' = IF res.ok
                    THEN setQueryData(cache, queryKey, res.value)
                    ELSE markError(cache, queryKey)
        /\ delivered' = [r \in Requesters |->
                           IF r \in waiters[queryKey]
                           THEN [key |-> queryKey, ok |-> res.ok, value |-> res.value]
                           ELSE NoDelivery]
  /\ inflight' = [inflight EXCEPT ![queryKey] = @ - 1]
  /\ waiters' = [waiters EXCEPT ![queryKey] = {}]
  /\ UNCHANGED <<mut, selected, probe>>

\* Variant: the fetch is cancelled when its last observer leaves.
DropInterest_Cancels(r) ==
  /\ \E k \in QueryKeys :
       /\ r \in waiters[k]
       /\ waiters' = [waiters EXCEPT ![k] = @ \ {r}]
       /\ inflight' = IF waiters[k] = {r} THEN [inflight EXCEPT ![k] = 0] ELSE inflight
  /\ delivered' = Undelivered
  /\ UNCHANGED <<cache, mut, selected, probe>>

\* An observer unmounts while its fetch is in flight.
DropInterest(r) ==
  /\ \E k \in QueryKeys :
       /\ r \in waiters[k]
       /\ waiters' = [waiters EXCEPT ![k] = @ \ {r}]
  /\ delivered' = Undelivered
  /\ UNCHANGED <<cache, inflight, mut, selected, probe>>

\* ContentTypeSelector: a button of the fetched list is clicked.
Select(codename) ==
  /\ LET data == getQueryData(cache, contentTypeKeys_list(PROJECT_ID, NoValue))
     IN /\ data # NoValue
        /\ \E i \in 1..Len(data.data) : data.data[i].codename = codename
  /\ selected' = codename
  /\ delivered' = Undelivered
  /\ UNCHANGED <<cache, inflight, waiters, mut, probe>>

\* ContentTypeDetail.handleUpdate -> mutation.mutate
HandleUpdate ==
  /\ mut.status # "pending"
  /\ LET viewKey == contentTypeKeys_detail(PROJECT_ID, selected)
         data == getQueryData(cache, viewKey)
     IN /\ data # NoValue
        /\ Suffixes(data.name) < MaxSuffixes
        /\ mut' = [status |-> "pending",
                   variables |-> [projectId |-> PROJECT_ID,
                                  contentType |-> [data EXCEPT !.name = data.name \o S_Updated]],
                   data |-> NoValue,
                   viewKey |-> viewKey]
  /\ delivered' = Undelivered
  /\ UNCHANGED <<cache, inflight, waiters, selected, probe>>

\* The origin write succeeded: onSuccess applies the cache effects.
MutationSuccess(now) ==
  /\ mut.status = "pending"
  /\ LET data == updateContentType_mutationFn(mut.variables, now).value
         effects == updateContentType_onSuccess(cache, data, mut.variables)
     IN /\ \A i \in 1..Len(effects) : Cardinality(DOMAIN effects[i]) <= MaxEntries
        /\ cache' = effects[Len(effects)]
        /\ mut' = [mut EXCEPT !.status = "success", !.data = data]
  /\ delivered' = Undelivered
  /\ UNCHANGED <<inflight, waiters, selected, probe>>

\* The origin write failed: the error is surfaced, no cache effect runs.
MutationError ==
  /\ mut.status = "pending"
  /\ mut' = [mut EXCEPT !.status = "error"]
  /\ cache' = updateContentType_onError(cache, mut.variables)
  /\ delivered' = Undelivered
  /\ UNCHANGED <<inflight, waiters, selected, probe>>

\* TypeSafeCacheAccess.handleManualCacheUpdate
ManualCacheUpdate(now) ==
  /\ LET queryKey == contentTypeKeys_detail(PROJECT_ID, selected)
         old == getQueryData(cache, queryKey)
     IN /\ old # NoValue => Suffixes(old.name) < MaxSuffixes
        /\ cache' = setQueryData(cache, queryKey,
                      handleManualCacheUpdate_updater(old, now))
  /\ delivered' = Undelivered
  /\ UNCHANGED <<inflight, waiters, mut, selected, probe>>

\* queryClient.invalidateQueries({ queryKey: filterKey })
Invalidate(filterKey) ==
  /\ cache' = invalidateQueries(cache, filterKey)
  /\ delivered' = Undelivered
  /\ UNCHANGED <<inflight, waiters, mut, selected, probe>>

Next ==
  \/ \E r \in Requesters, k \in RequestKeys : Request(r, k)
  \/ \E k \in QueryKeys : FetchSettle(k)
  \/ \E r \in Requesters : DropInterest(r)
  \/ \E c \in DetailIds : Select(c)
  \/ HandleUpdate
  \/ \E now \in NowValues : MutationSuccess(now)
  \/ MutationError
  \/ \E now \in NowValues : ManualCacheUpdate(now)
  \/ \E F \in FilterKeys : Invalidate(F)

Spec == Init /\ [][Next]_vars

\* The application under a fair transport, on the keys of its own project:
\* the promise of every fetch in flight settles.
LiveKeys ==
  { contentTypeKeys_detail(PROJECT_ID, "article"),
    contentTypeKeys_detail(PROJECT_ID, "category"),
    contentTypeKeys_detail(PROJECT_ID, "ct-001"),
    contentTypeKeys_list(PROJECT_ID, NoValue) }

LiveFilterKeys ==
  { contentTypeKeys_all, contentTypeKeys_listsForEnvironment(PROJECT_ID) }

LiveNext ==
  \/ \E r \in Requesters, k \in LiveKeys : Request(r, k)
  \/ \E k \in LiveKeys : FetchSettle(k)
  \/ \E r \in Requesters : DropInterest(r)
  \/ \E c \in DetailIds : Select(c)
  \/ HandleUpdate
  \/ \E now \in NowValues : MutationSuccess(now)
  \/ MutationError
  \/ \E now \in NowValues : ManualCacheUpdate(now)
  \/ \E F \in LiveFilterKeys : Invalidate(F)

LiveSpec == Init /\ [][LiveNext]_vars /\ \A k \in LiveKeys : WF_vars(FetchSettle(k))

-----------------------------------------------------------------------------
(* Key algebra on its own: every filter key against every query key *)

KeyInit ==
  /\ cache = [k \in {} |-> NewEntry]
  /\ inflight = [k \in QueryKeys |-> 0]
  /\ waiters = [k \in QueryKeys |-> {}]
  /\ delivered = Undelivered
  /\ mut = IdleMutation
  /\ selected = "article"
  /\ probe \in [filterKey : FilterKeyDecls, queryKey : QueryKeyDecls,
                done : {FALSE}, result : {FALSE}]

\* matches(filter key, query key) is evaluated on the keys the creators build.
ProbeMatches ==
  /\ ~probe.done
  /\ probe' = [probe EXCEPT !.done = TRUE,
                            !.result = matches(FilterKeyOf(probe.filterKey),
                                               QueryKeyOf(probe.queryKey))]
  /\ UNCHANGED <<cache, inflight, waiters, delivered, mut, selected>>

KeyNext == ProbeMatches

KeySpec == KeyInit /\ [][KeyNext]_vars

-----------------------------------------------------------------------------
(* Key-model registry on its own: every registered key against every leaf *)

KeyDecls == FilterKeyDecls \cup QueryKeyDecls

KeyOf(d) == IF d \in QueryKeyDecls THEN QueryKeyOf(d) ELSE FilterKeyOf(d)

RegistryInit ==
  /\ cache = [k \in {} |-> NewEntry]
  /\ inflight = [k \in QueryKeys |-> 0]
  /\ waiters = [k \in QueryKeys |-> {}]
  /\ delivered = Undelivered
  /\ mut = IdleMutation
  /\ selected = "article"
  /\ probe \in [key : KeyDecls, leaf : QueryKeyDecls, done : {FALSE}, tuples : {{}}]

\* The registry derives the [query key, cache model] tuples of the probed key.
ProbeRegistry ==
  /\ ~probe.done
  /\ probe' = [probe EXCEPT
                 !.done = TRUE,
                 !.tuples = QueryKeyToCacheModelTuplesForKey(KeyType(KeyOf(probe.key)))]
  /\ UNCHANGED <<cache, inflight, waiters, delivered, mut, selected>>

RegistryNext == ProbeRegistry

RegistrySpec == RegistryInit /\ [][RegistryNext]_vars

-----------------------------------------------------------------------------
(* Properties *)

\* The step in which the pending mutation's origin write succeeds / fails.
MutationCommits == mut.status = "pending" /\ mut'.status = "success"
MutationFails == mut.status = "pending" /\ mut'.status = "error"

IsContentTypeListOf(key, projectId) ==
  /\ key[1].type = "contentType"
  /\ key[1].projectId = projectId
  /\ key[1].scope = "list"

\* The detail key the committed record D of the mutation belongs under.
CommittedKey(m) == contentTypeKeys_detail(m.variables.projectId, m.data.id)

\* C1: when an updateContentType mutation for project P commits with result D,
\* the entry of detail key (P, D.id) holds D, every cached contentType list
\* entry of P is stale, and every other entry is exactly as before.
C1_DetailUpdatePropagation ==
  [][MutationCommits =>
       LET P == mut.variables.projectId
           target == CommittedKey(mut')
       IN /\ getQueryData(cache', target) = mut'.data
          /\ \A k \in DOMAIN cache' : IsContentTypeListOf(k, P) => cache'[k].stale
          /\ \A k \in DOMAIN cache :
               (k # target /\ ~IsContentTypeListOf(k, P)) => cache'[k] = cache[k]]_vars

C1_Witness ==
  /\ mut.status = "success"
  /\ getQueryData(cache, CommittedKey(mut)) = mut.data
  /\ \E k \in DOMAIN cache :
       IsContentTypeListOf(k, mut.variables.projectId) /\ cache[k].stale
  /\ \E k \in DOMAIN cache :
       /\ k # CommittedKey(mut)
       /\ k[1].scope = "detail"
       /\ cache[k].state = "success"
       /\ ~cache[k].stale

\* C2: when the origin write of a mutation fails, the whole cache store is
\* the store as it was before that step: no entry's value, state or stale
\* flag changes.
C2_FailedMutationLeavesStore == [][MutationFails => cache' = cache]_vars

C2_Witness ==
  /\ mut.status = "error"
  /\ \E k \in DOMAIN cache :
       IsContentTypeListOf(k, mut.variables.projectId) /\ ~cache[k].stale

\* C3: every cache entry that holds a value holds a value of the cache model
\* registered for its key.
C3_EntriesHoldRegisteredModel ==
  \A k \in DOMAIN cache :
    cache[k].value # NoValue => ModelOf(cache[k].value) = CacheModelForKey(k)

C3_Witness ==
  /\ mut.status = "success"
  /\ getQueryData(cache, CommittedKey(mut)) = mut.data
  /\ \E k \in DOMAIN cache :
       k[1].type = "language" /\ ModelOf(cache[k].value) = "Languages"

\* C4: invalidate(F) leaves every entry matched by F stale and every entry not
\* matched by F exactly as it was; it neither adds nor removes entries.
C4_InvalidateThenStale ==
  [][\A F \in FilterKeys :
       Invalidate(F) =>
         /\ DOMAIN cache' = DOMAIN cache
         /\ \A k \in DOMAIN cache :
              IF matches(F, k) THEN cache'[k].stale ELSE cache'[k] = cache[k]]_vars

C4_Witness ==
  /\ mut.status = "idle"
  /\ \E k1, k2 \in DOMAIN cache :
       /\ cache[k1].state = "success" /\ cache[k1].stale
       /\ cache[k2].state = "success" /\ ~cache[k2].stale

\* C5: for the keys the key creators build, a filter key matches a query key
\* exactly when every field of the filter key is in the query key with an
\* equal value.
C5_ContainmentLaw ==
  probe.done =>
    (probe.result <=>
       FieldsContained(FilterKeyOf(probe.filterKey)[1], QueryKeyOf(probe.queryKey)[1]))

C5_Witness ==
  /\ probe.done
  /\ probe.result
  /\ probe.filterKey.name = "detailsForEnvironment"
  /\ probe.queryKey.name = "detail"

\* C6: at most one transport call is in flight per key, a request for a key
\* with a fetch in flight issues no transport call, and the requesters of one
\* fetch all receive the same result, the one committed to the store.
C6_Dedup ==
  /\ [](\A k \in QueryKeys : inflight[k] <= 1)
  /\ [](\A r1, r2 \in Requesters :
          (delivered[r1] # NoDelivery /\ delivered[r2] # NoDelivery)
            => delivered[r1] = delivered[r2])
  /\ [](\A r \in Requesters :
          (delivered[r] # NoDelivery /\ delivered[r].ok)
            => delivered[r].value = getQueryData(cache, delivered[r].key))
  /\ [][\A k \in QueryKeys : inflight[k] > 0 => inflight'[k] <= inflight[k]]_vars

C6_Witness ==
  \A r \in Requesters : delivered[r] # NoDelivery /\ delivered[r].ok

\* C7: when the fetch of a key ends with a transport error, the entry goes to
\* state error and keeps the value it had.
C7_FailedFetchKeepsValue ==
  [][\A k \in DOMAIN cache :
       (inflight'[k] < inflight[k] /\ ~queryFn(k).ok) =>
         /\ cache'[k].state = "error"
         /\ cache'[k].value = cache[k].value]_vars

C7_Witness ==
  \E k \in DOMAIN cache :
    /\ cache[k].state = "error"
    /\ cache[k].value # NoValue
    /\ inflight[k] = 0

\* C8: when a mutation issued from the detail view commits, the entry under
\* the key the view reads holds the committed record.
C8_ViewEntryUpdated ==
  [][MutationCommits => getQueryData(cache', mut.viewKey) = mut'.data]_vars

\* C9: the cache effects of a mutation run only in the step in which its
\* origin write succeeds, the detail write first: no store along onSuccess
\* has an entry newly stale without the committed record written, and
\* starting the mutation changes no entry.
C9_EffectsOrdered ==
  [][/\ MutationCommits =>
          LET effects == updateContentType_onSuccess(cache, mut'.data, mut.variables)
              target == CommittedKey(mut')
          IN /\ cache' = effects[Len(effects)]
             /\ getQueryData(cache', target) = mut'.data
             /\ \A i \in 1..Len(effects) :
                  (\E k \in DOMAIN cache : effects[i][k].stale /\ ~cache[k].stale)
                    => getQueryData(effects[i], target) = mut'.data
     /\ (mut.status # "pending" /\ mut'.status = "pending") => cache' = cache]_vars

C9_Witness ==
  /\ mut.status = "success"
  /\ getQueryData(cache, CommittedKey(mut)) = mut.data
  /\ ~cache[CommittedKey(mut)].stale
  /\ \E k \in DOMAIN cache :
       /\ IsContentTypeListOf(k, mut.variables.projectId)
       /\ cache[k].state = "success"
       /\ cache[k].stale

\* C10: contentType filter keys match exactly: all, every contentType query
\* key; allForEnvironment(p), the contentType keys of project p;
\* detailsForEnvironment(p), the detail keys of p; listsForEnvironment(p), the
\* list keys of p; and no language key.
Granularity(df, dq) ==
  /\ dq.entity = "contentType"
  /\ CASE df.name = "all" -> TRUE
       [] df.name = "allForEnvironment" -> dq.projectId = df.projectId
       [] df.name = "detailsForEnvironment" ->
            dq.projectId = df.projectId /\ dq.name = "detail"
       [] df.name = "listsForEnvironment" ->
            dq.projectId = df.projectId /\ dq.name = "list"

C10_InvalidationGranularity ==
  (probe.done /\ probe.filterKey.entity = "contentType")
    => (probe.result <=> Granularity(probe.filterKey, probe.queryKey))

C10_Witness ==
  /\ probe.done
  /\ ~probe.result
  /\ probe.filterKey.name = "detailsForEnvironment"
  /\ probe.queryKey.entity = "contentType"
  /\ probe.queryKey.name = "list"
  /\ probe.queryKey.projectId = probe.filterKey.projectId

\* C11: for every registered key K, filter or query key, the (leaf key, cache
\* model) pairs the registry derives for K are exactly the registered leaves
\* K matches, each with its own model: a leaf key yields its one model,
\* contentType all and allForEnvironment yield ContentType and ContentTypes,
\* detailsForEnvironment only ContentType, listsForEnvironment only
\* ContentTypes, the language keys only the language list, and no key yields
\* a model of another entity.
LeafMatchedBy(leaf, key) ==
  /\ leaf.entity = key.entity
  /\ key.name = leaf.name \/ key.name \in LineageNames(leaf.entity, leaf.name)

ModelsReachable ==
  [ contentType |->
      [ all |-> {"ContentType", "ContentTypes"},
        allForEnvironment |-> {"ContentType", "ContentTypes"},
        detailsForEnvironment |-> {"ContentType"},
        listsForEnvironment |-> {"ContentTypes"},
        detail |-> {"ContentType"},
        list |-> {"ContentTypes"} ],
    language |->
      [ all |-> {"Languages"},
        allForEnvironment |-> {"Languages"},
        listsForEnvironment |-> {"Languages"},
        list |-> {"Languages"} ] ]

C11_RegistryTuples ==
  probe.done =>
    /\ {t.cacheModel : t \in {u \in probe.tuples :
                                 u.queryKey = KeyType(QueryKeyOf(probe.leaf))}}
         = IF LeafMatchedBy(probe.leaf, probe.key)
           THEN {QueryKeyNameToCacheModel[probe.leaf.entity][probe.leaf.name]}
           ELSE {}
    /\ {t.cacheModel : t \in probe.tuples}
         = ModelsReachable[probe.key.entity][probe.key.name]

C11_Witness ==
  /\ probe.done
  /\ probe.key.entity = "contentType"
  /\ probe.key.name = "detailsForEnvironment"
  /\ probe.leaf.name = "detail"
  /\ probe.leaf.entity = "contentType"
  /\ probe.tuples # {}

\* C12: no transport call for a key is made without a request for it: an
\* entry in state error has no fetch in flight, and the number of transport
\* calls outstanding for a key rises only in a step in which a requester asks
\* for that key.
C12_NoSilentRetry ==
  /\ [](\A k \in DOMAIN cache : cache[k].state = "error" => inflight[k] = 0)
  /\ [][\A k \in QueryKeys :
          inflight'[k] > inflight[k] => \E r \in Requesters : r \in waiters'[k] \ waiters[k]]_vars

C12_Witness ==
  /\ \E r \in Requesters : delivered[r] # NoDelivery /\ ~delivered[r].ok
  /\ \E k \in DOMAIN cache :
       /\ cache[k].state = "error"
       /\ cache[k].value = NoValue
       /\ inflight[k] = 0

\* The key the detail view and the cache-access panel read.
ViewKey == contentTypeKeys_detail(PROJECT_ID, selected)

\* C13: a write to key K whose updater returns value V, then a read of K,
\* returns V, whether or not K had an entry and whatever the entry's value,
\* state and stale flag were: for the manual cache update, for the write of
\* a fetched result, and for the detail write of a mutation.
C13_WriteThenRead ==
  [][/\ \A now \in NowValues :
          LET V == handleManualCacheUpdate_updater(getQueryData(cache, ViewKey), now)
          IN (ManualCacheUpdate(now) /\ V # NoValue) => getQueryData(cache', ViewKey) = V
     /\ \A k \in QueryKeys :
          (FetchSettle(k) /\ queryFn(k).ok) => getQueryData(cache', k) = queryFn(k).value
     /\ MutationCommits =>
          getQueryData(updateContentType_onSuccess(cache, mut'.data, mut.variables)[1],
                       CommittedKey(mut')) = mut'.data]_vars

C13_Witness ==
  /\ ViewKey \in DOMAIN cache
  /\ inflight[ViewKey] = 1
  /\ cache[ViewKey].state = "success"
  /\ cache[ViewKey].value.name = S_Article \o S_ManuallyUpdated

\* C14: a write whose updater returns no value changes nothing: the manual
\* cache update leaves the whole store as it was when the detail key has no
\* cached value, whether its entry is absent, loading or in error.
C14_NoValueWriteIsNoOp ==
  [][\A now \in NowValues :
       (ManualCacheUpdate(now) /\ getQueryData(cache, ViewKey) = NoValue) => cache' = cache]_vars

C14_Witness ==
  /\ selected = "category"
  /\ ViewKey \in DOMAIN cache
  /\ cache[ViewKey].state = "error"
  /\ cache[ViewKey].value = NoValue
  /\ delivered = Undelivered

\* The fetch state of a key's entry; a key without an entry is idle.
StateOf(c, k) == read(c, k).state

\* A step in which a fetch of k starts or completes.
FetchStarts(k) == inflight'[k] > inflight[k]
FetchCompletes(k) == inflight'[k] < inflight[k]

OnlyEntryChanged(c1, c2, k) ==
  /\ DOMAIN c1 \subseteq DOMAIN c2
  /\ DOMAIN c2 \subseteq DOMAIN c1 \cup {k}
  /\ \A j \in DOMAIN c1 : j # k => c2[j] = c1[j]

\* C16: write, markLoading and markError on key K leave the entry of every
\* other key as it was: the start and the completion of a fetch of K, the
\* manual cache update, and the detail write of a mutation, which changes no
\* list entry and no other detail entry.
C16_SingleKeyFrame ==
  [][/\ \A k \in QueryKeys :
          (FetchStarts(k) \/ FetchCompletes(k)) => OnlyEntryChanged(cache, cache', k)
     /\ \A now \in NowValues :
          ManualCacheUpdate(now) => OnlyEntryChanged(cache, cache', ViewKey)
     /\ MutationCommits =>
          OnlyEntryChanged(cache,
            updateContentType_onSuccess(cache, mut'.data, mut.variables)[1],
            CommittedKey(mut'))]_vars

C16_Witness ==
  /\ mut.status = "success"
  /\ getQueryData(cache, CommittedKey(mut)) = mut.data
  /\ mut.viewKey # CommittedKey(mut)
  /\ getQueryData(cache, mut.viewKey) = mockContentTypesByCodename.article
  /\ \E k \in DOMAIN cache :
       /\ IsContentTypeListOf(k, PROJECT_ID)
       /\ cache[k].value # NoValue
       /\ cache[k].value.data = allContentTypes

\* A step in which an observer of k leaves and nothing is delivered.
WaiterLeaves(k) ==
  /\ waiters'[k] # waiters[k]
  /\ waiters'[k] \subseteq waiters[k]
  /\ delivered' = Undelivered

\* C17: an observer dropping its interest in a key with a fetch in flight
\* cancels no transport call and changes no entry, and a fetch that completes
\* successfully after its last observer left is committed: the entry ends in
\* state success with the fetched value, never in error.
C17_DropDoesNotCancel ==
  [][\A k \in QueryKeys :
       /\ (inflight[k] > 0 /\ WaiterLeaves(k)) => (inflight' = inflight /\ cache' = cache)
       /\ (FetchCompletes(k) /\ waiters[k] = {} /\ queryFn(k).ok) =>
            /\ StateOf(cache', k) = "success"
            /\ getQueryData(cache', k) = queryFn(k).value]_vars

C17_Witness ==
  \E k \in QueryKeys :
    /\ inflight[k] = 1
    /\ waiters[k] = {}
    /\ queryFn(k).ok
    /\ StateOf(cache, k) = "loading"

\* C18: invalidate changes no value and no fetch state, of a matched entry or
\* any other, and removes no entry, as an operation of its own and as the
\* second effect of a mutation; an entry that is stale keeps its value when
\* its refetch starts.
C18_InvalidateKeepsValues ==
  [][/\ \A F \in FilterKeys :
          Invalidate(F) =>
            /\ DOMAIN cache' = DOMAIN cache
            /\ \A k \in DOMAIN cache :
                 cache'[k].value = cache[k].value /\ cache'[k].state = cache[k].state
     /\ MutationCommits =>
          LET effects == updateContentType_onSuccess(cache, mut'.data, mut.variables)
          IN \A k \in DOMAIN effects[1] :
               /\ k \in DOMAIN effects[2]
               /\ effects[2][k].value = effects[1][k].value
               /\ effects[2][k].state = effects[1][k].state
     /\ \A k \in DOMAIN cache :
          (cache[k].stale /\ FetchStarts(k)) =>
            getQueryData(cache', k) = getQueryData(cache, k)]_vars

C18_Witness ==
  \E k \in DOMAIN cache :
    /\ cache[k].stale
    /\ cache[k].state = "loading"
    /\ cache[k].value # NoValue
    /\ inflight[k] = 1

\* Filter key declaration df is the one query key declaration dq spreads.
BuiltFrom(dq, df) ==
  /\ df.entity = dq.entity
  /\ df.name = SpreadsFrom[dq.entity][dq.name]
  /\ df.projectId = dq.projectId

\* Object q has every field of object f with an equal value, and more fields.
StrictExtension(f, q) == FieldsContained(f, q) /\ DOMAIN q # DOMAIN f

\* C19 as stated: every query key is a strict extension of the filter key it
\* is built from, and equals no filter key of its entity.
C19_StrictExtension ==
  probe.done =>
    LET F == FilterKeyOf(probe.filterKey)
        Q == QueryKeyOf(probe.queryKey)
    IN /\ BuiltFrom(probe.queryKey, probe.filterKey) => StrictExtension(F[1], Q[1])
       /\ probe.queryKey.entity = probe.filterKey.entity => Q # F

\* C19 amended: every query key has every field of the filter key it is built
\* from, with equal value; a contentType query key adds a field to it and
\* equals no filter key; languageKeys.list adds none, and equals
\* languageKeys.listsForEnvironment of the same project and no other filter key.
C19_ExtensionAmended ==
  probe.done =>
    LET F == FilterKeyOf(probe.filterKey)
        Q == QueryKeyOf(probe.queryKey)
    IN /\ BuiltFrom(probe.queryKey, probe.filterKey) =>
            /\ FieldsContained(F[1], Q[1])
            /\ probe.queryKey.entity = "contentType" => StrictExtension(F[1], Q[1])
       /\ Q = F <=> /\ probe.queryKey.entity = "language"
                    /\ BuiltFrom(probe.queryKey, probe.filterKey)

C19_Witness ==
  /\ probe.done
  /\ probe.result
  /\ probe.queryKey.entity = "language"
  /\ probe.filterKey.entity = "language"
  /\ probe.filterKey.name = "listsForEnvironment"
  /\ QueryKeyOf(probe.queryKey) = FilterKeyOf(probe.filterKey)

\* Key k holds a record committed by updateContentType: onSuccess alone
\* writes a record under the detail key of the record's own id.
HoldsCommitted(c, k) ==
  /\ k \in DOMAIN c
  /\ k[1].type = "contentType"
  /\ k[1].scope = "detail"
  /\ c[k].value # NoValue
  /\ k = contentTypeKeys_detail(k[1].projectId, c[k].value.id)

\* C20: once updateContentType has written its record D under a detail key,
\* the completion of a fetch of that key leaves D in place, also when the
\* fetch was in flight while the mutation committed.
C20_CommittedNotOverwritten ==
  [][\A k \in QueryKeys :
       (FetchCompletes(k) /\ HoldsCommitted(cache, k)) =>
         getQueryData(cache', k) = getQueryData(cache, k)]_vars

C20_Witness ==
  /\ mut.status = "success"
  /\ inflight[CommittedKey(mut)] = 1
  /\ HoldsCommitted(cache, CommittedKey(mut))
  /\ cache[CommittedKey(mut)].state = "success"
  /\ getQueryData(cache, CommittedKey(mut)) = mut.data

\* C21: every content type a cached list of the project holds can be fetched
\* as a detail: fetchContentType with the item's codename, the identifier the
\* selector passes on, resolves with a record of the item's id, name and
\* codename.
C21_ListItemsFetchable ==
  \A k \in DOMAIN cache :
    (IsContentTypeListOf(k, PROJECT_ID) /\ cache[k].state = "success") =>
      \A i \in 1..Len(cache[k].value.data) :
        LET item == cache[k].value.data[i]
            res == fetchContentType(PROJECT_ID, item.codename)
        IN /\ res.ok
           /\ res.value.id = item.id
           /\ res.value.name = item.name
           /\ res.value.codename = item.codename

\* C22: under a transport that always answers, every entry in state loading
\* eventually reaches state success or error.
C22_LoadingLeaves ==
  \A k \in LiveKeys :
    (StateOf(cache, k) = "loading") ~> (StateOf(cache, k) \in {"success", "error"})

C22_Witness ==
  \E k \in DOMAIN cache :
    /\ cache[k].state = "loading"
    /\ inflight[k] = 1
    /\ waiters[k] = Requesters
    /\ ~queryFn(k).ok

=============================================================================
